---- MODULE Spec2Model ----
(***************************************************************************)
(* PicoLibc system call shim of RIOT                                       *)
(* (sys/picolibc_syscalls_default/syscalls.c).                             *)
(*                                                                         *)
(* The state is the static data of the file (the put mutex, the stdout     *)
(* buffer and its fill count), the character channel behind stdio_write    *)
(* and stdio_read, and for every thread the entry point it is in and the   *)
(* source line it is at.  One action is one step of one thread; the steps  *)
(* are cut at the places where another thread can observe a difference:    *)
(* mutex_lock, mutex_unlock, the blocking stdio_write and stdio_read, the  *)
(* reset of the fill count after a write, and the return to the caller.    *)
(***************************************************************************)
EXTENDS Integers, Sequences, FiniteSets

\* ------------------------------------------------------------------ bounds
NThreads == 2       \* threads of the general specification
MaxCalls == 2       \* calls of the entry points made in one behaviour
Gap == 2            \* free buffer slots of the nearly full starting state

\* ------------------------------------------------------- program constants
PICOLIBC_STDOUT_BUFSIZE == 64       \* syscalls.c:68
NL == 10                            \* '\n', syscalls.c:86
MUTEX_INIT == 0                     \* unlocked mutex, syscalls.c:66

Threads == 1..NThreads
Run == <<65, 66, NL>>               \* "AB\n"
Bytes == {Run[i] : i \in 1..Len(Run)}
Fill == Run[1]                      \* byte of the nearly full starting state
InBytes == {66}                     \* bytes the channel delivers to a read
ExitCodes == {0, 1}
WriteData == {<<67, NL>>}              \* the buffer handed to write(): "C\n"
Fds == {0, 1, 3}                    \* stdin, stdout, and a descriptor never opened
Sigs == {0, 9}                      \* the null signal and SIGKILL
NoThread == NThreads + 1            \* a pid no thread has
TmsValues == {<<7, 7, 7, 7>>}       \* what a struct tms holds before times()

VARIABLES
    picolibc_put_mutex,       \* MUTEX_INIT, or the thread that locked it
    picolibc_stdout,          \* the buffer, indices 0..BUFSIZE-1
    picolibc_stdout_queued,   \* bytes queued in the buffer
    overflow,                 \* a store outside the buffer has happened
    channel,                  \* every byte handed to stdio_write, in order,
                              \* as <<byte, caller of stdio_write>>
    pc,                       \* per thread: the place in the source
    op,                       \* per thread: the entry point called last
    arg,                      \* per thread: the argument of that call (c, n)
    wdata,                    \* per thread: the buffer handed to write()
    ret,                      \* per thread: <<value>> returned by that call
    budget,                   \* calls the general specification may still make
    todo,                     \* per thread: bytes a scripted thread still puts
    \* history, read by the properties only
    supplied,                 \* bytes stored by put, in store order
    lastFlush,                \* the bytes of the latest such write
    wrote,                    \* per thread: this call did such a write
    flushed,                  \* per thread: this call ran _picolibc_flush
    snap,                     \* per thread: Len(supplied) when get was called
    log,                      \* exit codes logged by LOG_INFO, in order
    pm,                       \* threads that requested pm_off
    parm,                     \* per thread: the further parameters of the call
                              \* (<<stream>>, <<fd>>, <<sig>> or <<ptms>>)
    errno,                    \* per thread: errno (thread local storage), as
                              \* the name of the error code; "none" at start
    tms                       \* per thread: the struct tms its ptms points to

shared == <<picolibc_put_mutex, picolibc_stdout, picolibc_stdout_queued, overflow>>
hist == <<supplied, lastFlush, wrote, flushed, snap>>
halt == <<log, pm>>
sys == <<parm, errno, tms>>
vars == <<shared, channel, pc, op, arg, wdata, ret, budget, todo, hist, halt, sys>>

\* ---------------------------------------------------------------- helpers
\* picolibc_stdout[0 .. n-1] as a sequence
Prefix(buf, n) == [i \in 1..n |-> buf[i - 1]]

\* a caller's buffer (a sequence) as a C array indexed from 0
Array(s) == [i \in 0..(Len(s) - 1) |-> s[i + 1]]

\* stdio_write(data, len) called from `via`: the channel after the call; the
\* call blocks until all len bytes are written and returns len
stdio_write(ch, data, len, via) == ch \o [i \in 1..len |-> <<data[i - 1], via>>]

\* mutex_lock blocks while the mutex is locked
mutex_free(m) == m = MUTEX_INIT
mutex_lock(m, t) == t
mutex_unlock(m, t) == MUTEX_INIT

\* the state after k uninterrupted put(Fill) calls on the initial state
\* (k < BUFSIZE, Fill is no newline: none of them flushes)
InitBuffer(k) == [i \in 0..(PICOLIBC_STDOUT_BUFSIZE - 1) |-> IF i < k THEN Fill ELSE 0]

InitWith(T, k, b, script) ==
    /\ picolibc_put_mutex = MUTEX_INIT
    /\ picolibc_stdout = InitBuffer(k)
    /\ picolibc_stdout_queued = k
    /\ overflow = FALSE
    /\ channel = <<>>
    /\ pc = [t \in T |-> "idle"]
    /\ op = [t \in T |-> "none"]
    /\ arg = [t \in T |-> 0]
    /\ wdata = [t \in T |-> <<>>]
    /\ ret = [t \in T |-> <<>>]
    /\ budget = b
    /\ todo = [t \in T |-> script]
    /\ supplied = [i \in 1..k |-> Fill]
    /\ lastFlush = <<>>
    /\ wrote = [t \in T |-> FALSE]
    /\ flushed = [t \in T |-> FALSE]
    /\ snap = [t \in T |-> 0]
    /\ log = <<>>
    /\ pm = {}
    /\ parm = [t \in T |-> <<>>]
    /\ errno = [t \in T |-> "none"]
    /\ tms = [t \in T |-> <<>>]

\* static initialisation (k = 0), or the buffer Gap bytes short of full: the
\* state SpecFill reaches from static initialisation after 64 - Gap calls
\* put(Fill) have returned
Init == \E k \in {0, PICOLIBC_STDOUT_BUFSIZE - Gap} : InitWith(Threads, k, MaxCalls, <<>>)

\* ------------------------------------------------------------------ calls
Enter(t, name, a, first) ==
    /\ pc[t] = "idle"
    /\ pc' = [pc EXCEPT ![t] = first]
    /\ op' = [op EXCEPT ![t] = name]
    /\ arg' = [arg EXCEPT ![t] = a]
    /\ ret' = [ret EXCEPT ![t] = <<>>]
    /\ wrote' = [wrote EXCEPT ![t] = FALSE]
    /\ flushed' = [flushed EXCEPT ![t] = FALSE]
    /\ UNCHANGED <<shared, channel, supplied, lastFlush, halt>>

Return(t, v) ==
    /\ pc' = [pc EXCEPT ![t] = "idle"]
    /\ ret' = [ret EXCEPT ![t] = <<v>>]
    /\ UNCHANGED <<shared, channel, op, arg, wdata, budget, todo, hist, halt, sys>>

\* picolibc_get without its picolibc_flush(NULL)
get_entry_noflush == "get_read"

\* picolibc_get starts with picolibc_flush(NULL)
get_entry == "lock"

CallPut(t) ==
    /\ budget > 0
    /\ budget' = budget - 1
    /\ \E c \in Bytes : Enter(t, "put", c, "lock")
    /\ UNCHANGED <<todo, snap, wdata, sys>>

CallFlush(t) ==
    /\ budget > 0
    /\ budget' = budget - 1
    /\ Enter(t, "flush", 0, "lock")
    /\ UNCHANGED <<todo, snap, wdata, sys>>

CallGet(t) ==
    /\ budget > 0
    /\ budget' = budget - 1
    /\ Enter(t, "get", 0, get_entry)
    /\ snap' = [snap EXCEPT ![t] = Len(supplied)]
    /\ UNCHANGED <<todo, wdata, sys>>

\* ------------------------------------------- picolibc_put, picolibc_flush
\* picolibc_flush without its mutex_lock
Lock_put_only(t) ==
    /\ pc[t] = "lock"
    /\ IF op[t] = "put"
          THEN /\ mutex_free(picolibc_put_mutex)
               /\ picolibc_put_mutex' = mutex_lock(picolibc_put_mutex, t)
          ELSE UNCHANGED picolibc_put_mutex
    /\ pc' = [pc EXCEPT ![t] = IF op[t] = "put" THEN "put_store" ELSE "fl_test"]
    /\ UNCHANGED <<picolibc_stdout, picolibc_stdout_queued, overflow, channel,
                   op, arg, wdata, ret, budget, todo, hist, halt, sys>>

\* mutex_lock(&picolibc_put_mutex) of picolibc_put and picolibc_flush
Lock(t) ==
    /\ pc[t] = "lock"
    /\ mutex_free(picolibc_put_mutex)
    /\ picolibc_put_mutex' = mutex_lock(picolibc_put_mutex, t)
    /\ pc' = [pc EXCEPT ![t] = IF op[t] = "put" THEN "put_store" ELSE "fl_test"]
    /\ UNCHANGED <<picolibc_stdout, picolibc_stdout_queued, overflow, channel,
                   op, arg, wdata, ret, budget, todo, hist, halt, sys>>

\* the inline flush without the newline test, with the capacity test off by
\* one, taken on every put, and taken on no put
put_flushes_full_only(queued, c) == queued = PICOLIBC_STDOUT_BUFSIZE
put_flushes_late(queued, c) == queued > PICOLIBC_STDOUT_BUFSIZE \/ c = NL
put_flushes_always(queued, c) == TRUE
put_flushes_never(queued, c) == FALSE

\* the condition of picolibc_put's inline flush, on the count after the store
put_flushes(queued, c) == queued = PICOLIBC_STDOUT_BUFSIZE \/ c = NL

\* picolibc_stdout[picolibc_stdout_queued++] = c; and the test that follows.
\* A store at an index outside the array is undefined behaviour: it is
\* recorded in overflow, and the memory it hits (the count may be part of
\* it) holds any value afterwards.
PutStore(t) ==
    /\ pc[t] = "put_store"
    /\ IF picolibc_stdout_queued \in 0..(PICOLIBC_STDOUT_BUFSIZE - 1)
          THEN /\ picolibc_stdout' = [picolibc_stdout EXCEPT ![picolibc_stdout_queued] = arg[t]]
               /\ picolibc_stdout_queued' = picolibc_stdout_queued + 1
               /\ UNCHANGED overflow
          ELSE /\ overflow' = TRUE
               /\ picolibc_stdout_queued' \in 0..PICOLIBC_STDOUT_BUFSIZE
               /\ UNCHANGED picolibc_stdout
    /\ supplied' = Append(supplied, arg[t])
    /\ pc' = [pc EXCEPT ![t] = IF put_flushes(picolibc_stdout_queued', arg[t])
                                  THEN "fl_test" ELSE "unlock"]
    /\ UNCHANGED <<picolibc_put_mutex, channel, op, arg, wdata, ret, budget, todo,
                   lastFlush, wrote, flushed, snap, halt, sys>>

\* _picolibc_flush without its test of the count
flush_writes_always(queued) == TRUE

\* if (picolibc_stdout_queued) of _picolibc_flush
flush_writes(queued) == queued # 0

FlushTest(t) ==
    /\ pc[t] = "fl_test"
    /\ flushed' = [flushed EXCEPT ![t] = TRUE]
    /\ pc' = [pc EXCEPT ![t] = IF flush_writes(picolibc_stdout_queued)
                                  THEN "fl_write" ELSE "unlock"]
    /\ UNCHANGED <<shared, channel, op, arg, wdata, ret, budget, todo,
                   supplied, lastFlush, wrote, snap, halt, sys>>

\* a write that leaves the last queued byte out
flush_len_short(queued) == queued - 1

\* the length _picolibc_flush hands to stdio_write
flush_len(queued) == queued

\* stdio_write(picolibc_stdout, picolibc_stdout_queued) returns
FlushWrite(t) ==
    /\ pc[t] = "fl_write"
    /\ channel' = stdio_write(channel, picolibc_stdout,
                               flush_len(picolibc_stdout_queued), "_picolibc_flush")
    /\ lastFlush' = Prefix(picolibc_stdout, flush_len(picolibc_stdout_queued))
    /\ wrote' = [wrote EXCEPT ![t] = TRUE]
    /\ pc' = [pc EXCEPT ![t] = "fl_reset"]
    /\ UNCHANGED <<shared, op, arg, wdata, ret, budget, todo, supplied, flushed, snap, halt, sys>>

\* _picolibc_flush without the reset of the count
queued_kept(queued) == queued

\* picolibc_stdout_queued = 0;
queued_after_flush(queued) == 0

FlushReset(t) ==
    /\ pc[t] = "fl_reset"
    /\ picolibc_stdout_queued' = queued_after_flush(picolibc_stdout_queued)
    /\ pc' = [pc EXCEPT ![t] = "unlock"]
    /\ UNCHANGED <<picolibc_put_mutex, picolibc_stdout, overflow, channel,
                   op, arg, wdata, ret, budget, todo, hist, halt, sys>>

\* picolibc_flush returning without mutex_unlock
Unlock_put_only(t) ==
    /\ pc[t] = "unlock"
    /\ picolibc_put_mutex' = IF op[t] = "put"
                                THEN mutex_unlock(picolibc_put_mutex, t)
                                ELSE picolibc_put_mutex
    /\ pc' = [pc EXCEPT ![t] = "ret"]
    /\ UNCHANGED <<picolibc_stdout, picolibc_stdout_queued, overflow, channel,
                   op, arg, wdata, ret, budget, todo, hist, halt, sys>>

\* picolibc_put returning without mutex_unlock after its inline flush
Unlock_unless_flushed(t) ==
    /\ pc[t] = "unlock"
    /\ picolibc_put_mutex' = IF op[t] = "put" /\ flushed[t]
                                THEN picolibc_put_mutex
                                ELSE mutex_unlock(picolibc_put_mutex, t)
    /\ pc' = [pc EXCEPT ![t] = "ret"]
    /\ UNCHANGED <<picolibc_stdout, picolibc_stdout_queued, overflow, channel,
                   op, arg, wdata, ret, budget, todo, hist, halt, sys>>

\* picolibc_get keeping the mutex for its stdio_read
Unlock_not_in_get(t) ==
    /\ pc[t] = "unlock"
    /\ picolibc_put_mutex' = IF op[t] = "get"
                                THEN picolibc_put_mutex
                                ELSE mutex_unlock(picolibc_put_mutex, t)
    /\ pc' = [pc EXCEPT ![t] = "ret"]
    /\ UNCHANGED <<picolibc_stdout, picolibc_stdout_queued, overflow, channel,
                   op, arg, wdata, ret, budget, todo, hist, halt, sys>>

\* mutex_unlock(&picolibc_put_mutex) of picolibc_put and picolibc_flush
Unlock(t) ==
    /\ pc[t] = "unlock"
    /\ picolibc_put_mutex' = mutex_unlock(picolibc_put_mutex, t)
    /\ pc' = [pc EXCEPT ![t] = "ret"]
    /\ UNCHANGED <<picolibc_stdout, picolibc_stdout_queued, overflow, channel,
                   op, arg, wdata, ret, budget, todo, hist, halt, sys>>

\* return 1; of picolibc_put
PutRet(t) ==
    /\ pc[t] = "ret"
    /\ op[t] = "put"
    /\ Return(t, 1)

\* return 0; of picolibc_flush called as the stream's flush
FlushRet(t) ==
    /\ pc[t] = "ret"
    /\ op[t] = "flush"
    /\ Return(t, 0)

\* ------------------------------------------------------------ picolibc_get
\* picolibc_flush(NULL) has returned into picolibc_get
GetFlushed(t) ==
    /\ pc[t] = "ret"
    /\ op[t] = "get"
    /\ pc' = [pc EXCEPT ![t] = "get_read"]
    /\ UNCHANGED <<shared, channel, op, arg, wdata, ret, budget, todo, hist, halt, sys>>

\* stdio_read(&c, 1) returns with a byte of the channel; return c;
GetRead(t) ==
    /\ pc[t] = "get_read"
    /\ \E c \in InBytes : Return(t, c)

\* ------------------------------------------------------------------ write
CallWrite(t) ==
    /\ budget > 0
    /\ budget' = budget - 1
    /\ \E d \in WriteData :
          /\ Enter(t, "write", Len(d), "write_call")
          /\ wdata' = [wdata EXCEPT ![t] = d]
    /\ UNCHANGED <<todo, snap, sys>>

\* a write that empties the stdout buffer onto the channel before its data
Write_flushes_first(t) ==
    /\ pc[t] = "write_call"
    /\ channel' = stdio_write(stdio_write(channel, picolibc_stdout,
                                           picolibc_stdout_queued, "_picolibc_flush"),
                               Array(wdata[t]), arg[t], "write")
    /\ picolibc_stdout_queued' = 0
    /\ pc' = [pc EXCEPT ![t] = "idle"]
    /\ ret' = [ret EXCEPT ![t] = <<arg[t]>>]
    /\ UNCHANGED <<picolibc_put_mutex, picolibc_stdout, overflow, op, arg, wdata,
                   budget, todo, hist, halt, sys>>

\* a write that accepts stdout and stderr only
Write_checks_fd(t) ==
    /\ pc[t] = "write_call"
    /\ IF parm[t][1] \in 1..2
          THEN /\ channel' = stdio_write(channel, Array(wdata[t]), arg[t], "write")
               /\ ret' = [ret EXCEPT ![t] = <<arg[t]>>]
               /\ UNCHANGED errno
          ELSE /\ ret' = [ret EXCEPT ![t] = <<-1>>]
               /\ errno' = [errno EXCEPT ![t] = "EBADF"]
               /\ UNCHANGED channel
    /\ pc' = [pc EXCEPT ![t] = "idle"]
    /\ UNCHANGED <<shared, op, arg, wdata, budget, todo, hist, halt, parm, tms>>

\* return stdio_write(data, count); the fd is not looked at
Write(t) ==
    /\ pc[t] = "write_call"
    /\ channel' = stdio_write(channel, Array(wdata[t]), arg[t], "write")
    /\ pc' = [pc EXCEPT ![t] = "idle"]
    /\ ret' = [ret EXCEPT ![t] = <<arg[t]>>]
    /\ UNCHANGED <<shared, op, arg, wdata, budget, todo, hist, halt, sys>>

\* ------------------------------------------------------------------ _exit
\* an _exit that starts with a flush of the stdout buffer
exit_entry_flushes == "lock"

\* the first statement of _exit is the LOG_INFO
exit_entry == "exit_log"

\* LOG_INFO of thread t with exit code n: the message is handed to the
\* logging facility, which keeps it; nothing comes back
LOG_INFO(l, t, n) == Append(l, <<t, n>>)

CallExit(t) ==
    /\ budget > 0
    /\ budget' = budget - 1
    /\ \E n \in ExitCodes : Enter(t, "exit", n, exit_entry)
    /\ UNCHANGED <<todo, snap, wdata, sys>>

\* LOG_INFO("#! exit %i: powering off\n", n);
ExitLog(t) ==
    /\ pc[t] = "exit_log"
    /\ log' = LOG_INFO(log, t, arg[t])
    /\ pc' = [pc EXCEPT ![t] = "exit_pm"]
    /\ UNCHANGED <<shared, channel, op, arg, wdata, ret, budget, todo, hist, pm, sys>>

\* pm_off(); is called
PmOff(t) ==
    /\ pc[t] = "exit_pm"
    /\ pm' = pm \cup {t}
    /\ pc' = [pc EXCEPT ![t] = "pm_off"]
    /\ UNCHANGED <<shared, channel, op, arg, wdata, ret, budget, todo, hist, log, sys>>

\* _exit without its while(1): it returns to the caller
after_pm_off_returns == "idle"

\* where _exit goes when pm_off() returns
after_pm_off == "halted"

\* pm_off() returns (it need not: the thread then stays in pm_off)
PmOffReturns(t) ==
    /\ pc[t] = "pm_off"
    /\ pc' = [pc EXCEPT ![t] = after_pm_off]
    /\ UNCHANGED <<shared, channel, op, arg, wdata, ret, budget, todo, hist, halt, sys>>

\* while(1); one turn of the loop
Halted(t) ==
    /\ pc[t] = "halted"
    /\ UNCHANGED vars

Next ==
    \E t \in DOMAIN pc :
        \/ CallPut(t)
        \/ CallFlush(t)
        \/ CallGet(t)
        \/ Lock(t)
        \/ PutStore(t)
        \/ FlushTest(t)
        \/ FlushWrite(t)
        \/ FlushReset(t)
        \/ Unlock(t)
        \/ PutRet(t)
        \/ FlushRet(t)
        \/ GetFlushed(t)
        \/ GetRead(t)
        \/ CallWrite(t)
        \/ Write(t)
        \/ CallExit(t)
        \/ ExitLog(t)
        \/ PmOff(t)
        \/ PmOffReturns(t)
        \/ Halted(t)

Spec == Init /\ [][Next]_vars

\* --------------------------------------------- three threads, "AB\n" each
\* The scenario of three threads that each call put('A'), put('B'),
\* put('\n') on the empty buffer.
ScenarioThreads == {1, 2, 3}

InitABN == InitWith(ScenarioThreads, 0, 0, Run)

CallScript(t) ==
    /\ todo[t] # <<>>
    /\ Enter(t, "put", Head(todo[t]), "lock")
    /\ todo' = [todo EXCEPT ![t] = Tail(todo[t])]
    /\ UNCHANGED <<budget, snap, wdata, sys>>

NextABN ==
    \E t \in DOMAIN pc :
        \/ CallScript(t)
        \/ Lock(t)
        \/ PutStore(t)
        \/ FlushTest(t)
        \/ FlushWrite(t)
        \/ FlushReset(t)
        \/ Unlock(t)
        \/ PutRet(t)

SpecABN == InitABN /\ [][NextABN]_vars

\* ------------------------------------- filling the buffer from empty
\* Concurrent put(Fill) calls on the initial state, until the buffer has been
\* filled once and Gap more bytes were put.
InitFill == InitWith(Threads, 0, 0, <<>>)

CallFill(t) ==
    /\ Len(supplied) < PICOLIBC_STDOUT_BUFSIZE + Gap
    /\ Enter(t, "put", Fill, "lock")
    /\ UNCHANGED <<budget, todo, snap, wdata, sys>>

NextFill ==
    \E t \in DOMAIN pc :
        \/ CallFill(t)
        \/ Lock(t)
        \/ PutStore(t)
        \/ FlushTest(t)
        \/ FlushWrite(t)
        \/ FlushReset(t)
        \/ Unlock(t)
        \/ PutRet(t)

SpecFill == InitFill /\ [][NextFill]_vars

\* ------------------------------------------ write, close, times and kill
\* write(fd, data, count) with its fd and with a count up to the size of data
CallWriteFd(t) ==
    /\ budget > 0
    /\ budget' = budget - 1
    /\ \E fd \in Fds, d \in WriteData : \E count \in 1..Len(d) :
          /\ Enter(t, "write", count, "write_call")
          /\ wdata' = [wdata EXCEPT ![t] = d]
          /\ parm' = [parm EXCEPT ![t] = <<fd>>]
    /\ UNCHANGED <<todo, snap, errno, tms>>

CallClose(t) ==
    /\ budget > 0
    /\ budget' = budget - 1
    /\ \E fd \in Fds :
          /\ Enter(t, "close", fd, "close_call")
          /\ parm' = [parm EXCEPT ![t] = <<fd>>]
    /\ UNCHANGED <<todo, snap, wdata, errno, tms>>

\* a close that succeeds on the standard descriptors
Close_std_ok(t) ==
    /\ pc[t] = "close_call"
    /\ pc' = [pc EXCEPT ![t] = "idle"]
    /\ ret' = [ret EXCEPT ![t] = IF arg[t] \in 0..2 THEN <<0>> ELSE <<-1>>]
    /\ errno' = [errno EXCEPT ![t] = IF arg[t] \in 0..2 THEN @ ELSE "ENODEV"]
    /\ UNCHANGED <<shared, channel, op, arg, wdata, budget, todo, hist, halt, parm, tms>>

\* errno = ENODEV; return -1;
Close(t) ==
    /\ pc[t] = "close_call"
    /\ errno' = [errno EXCEPT ![t] = "ENODEV"]
    /\ pc' = [pc EXCEPT ![t] = "idle"]
    /\ ret' = [ret EXCEPT ![t] = <<-1>>]
    /\ UNCHANGED <<shared, channel, op, arg, wdata, budget, todo, hist, halt, parm, tms>>

\* times(ptms): ptms is NULL or points to the caller's struct tms, which holds
\* what the caller left in it
CallTimes(t) ==
    /\ budget > 0
    /\ budget' = budget - 1
    /\ \E ptms \in {"NULL", "tms"}, v \in TmsValues :
          /\ Enter(t, "times", 0, "times_call")
          /\ parm' = [parm EXCEPT ![t] = <<ptms>>]
          /\ tms' = [tms EXCEPT ![t] = v]
    /\ UNCHANGED <<todo, snap, wdata, errno>>

\* a times that clears the record before it fails
Times_clears(t) ==
    /\ pc[t] = "times_call"
    /\ tms' = [tms EXCEPT ![t] = IF parm[t][1] = "NULL" THEN @ ELSE <<0, 0, 0, 0>>]
    /\ errno' = [errno EXCEPT ![t] = "ENOSYS"]
    /\ pc' = [pc EXCEPT ![t] = "idle"]
    /\ ret' = [ret EXCEPT ![t] = <<-1>>]
    /\ UNCHANGED <<shared, channel, op, arg, wdata, budget, todo, hist, halt, parm>>

\* errno = ENOSYS; return (-1);
Times(t) ==
    /\ pc[t] = "times_call"
    /\ errno' = [errno EXCEPT ![t] = "ENOSYS"]
    /\ pc' = [pc EXCEPT ![t] = "idle"]
    /\ ret' = [ret EXCEPT ![t] = <<-1>>]
    /\ UNCHANGED <<shared, channel, op, arg, wdata, budget, todo, hist, halt, parm, tms>>

\* kill(pid, sig): pid is a thread or the pid of no thread
CallKill(t) ==
    /\ budget > 0
    /\ budget' = budget - 1
    /\ \E pid \in DOMAIN pc \cup {NoThread}, sig \in Sigs :
          /\ Enter(t, "kill", pid, "kill_call")
          /\ parm' = [parm EXCEPT ![t] = <<sig>>]
    /\ UNCHANGED <<todo, snap, wdata, errno, tms>>

\* a kill that delivers: a signal other than 0 stops an existing target where
\* it is, and the call succeeds
Kill_delivers(t) ==
    /\ pc[t] = "kill_call"
    /\ IF arg[t] \in DOMAIN pc /\ arg[t] # t
          THEN /\ pc' = [pc EXCEPT ![t] = "idle",
                                   ![arg[t]] = IF parm[t][1] # 0 THEN "halted" ELSE @]
               /\ ret' = [ret EXCEPT ![t] = <<0>>]
               /\ UNCHANGED errno
          ELSE /\ pc' = [pc EXCEPT ![t] = "idle"]
               /\ ret' = [ret EXCEPT ![t] = <<-1>>]
               /\ errno' = [errno EXCEPT ![t] = "ESRCH"]
    /\ UNCHANGED <<shared, channel, op, arg, wdata, budget, todo, hist, halt, parm, tms>>

\* errno = ESRCH; return -1; of the weak default kill
Kill(t) ==
    /\ pc[t] = "kill_call"
    /\ errno' = [errno EXCEPT ![t] = "ESRCH"]
    /\ pc' = [pc EXCEPT ![t] = "idle"]
    /\ ret' = [ret EXCEPT ![t] = <<-1>>]
    /\ UNCHANGED <<shared, channel, op, arg, wdata, budget, todo, hist, halt, parm, tms>>

\* Threads that call put, write, close, times and kill in any order, on the
\* empty and on the nearly full buffer.
NextSys ==
    \E t \in DOMAIN pc :
        \/ CallPut(t)
        \/ Lock(t)
        \/ PutStore(t)
        \/ FlushTest(t)
        \/ FlushWrite(t)
        \/ FlushReset(t)
        \/ Unlock(t)
        \/ PutRet(t)
        \/ CallWriteFd(t)
        \/ Write(t)
        \/ CallClose(t)
        \/ Close(t)
        \/ CallTimes(t)
        \/ Times(t)
        \/ CallKill(t)
        \/ Kill(t)

SpecSys == Init /\ [][NextSys]_vars

\* ------------------------------------------- stdin, stdout and stderr
\* a FILE is the functions FDEV_SETUP_STREAM stores in it, named by the entry
\* point (put: picolibc_put, get: picolibc_get, flush: picolibc_flush)
picolibc_stdio == [put |-> "put", get |-> "get", flush |-> "flush"]

\* a stderr of its own, with a put that does not queue
stderr_unbuffered == [put |-> "put_unbuffered", get |-> "get", flush |-> "flush"]
iob_own_stderr == [h \in 0..2 |-> IF h = 2 THEN stderr_unbuffered ELSE picolibc_stdio]

\* __iob[0], __iob[1], __iob[2]: stdin, stdout, stderr
__iob == [h \in 0..2 |-> picolibc_stdio]

Handles == DOMAIN __iob

\* where the function of a FILE starts
stream_entry(fn) == IF fn = "get" THEN get_entry ELSE "lock"

\* putc(c, f), fflush(f) and getc(f) with f one of __iob: stdio calls the
\* function stored in the FILE, with the FILE as its last argument
CallPutVia(t) ==
    /\ budget > 0
    /\ budget' = budget - 1
    /\ \E h \in Handles, c \in Bytes :
          /\ Enter(t, __iob[h].put, c, stream_entry(__iob[h].put))
          /\ parm' = [parm EXCEPT ![t] = <<h>>]
    /\ UNCHANGED <<todo, snap, wdata, errno, tms>>

CallFlushVia(t) ==
    /\ budget > 0
    /\ budget' = budget - 1
    /\ \E h \in Handles :
          /\ Enter(t, __iob[h].flush, 0, stream_entry(__iob[h].flush))
          /\ parm' = [parm EXCEPT ![t] = <<h>>]
    /\ UNCHANGED <<todo, snap, wdata, errno, tms>>

CallGetVia(t) ==
    /\ budget > 0
    /\ budget' = budget - 1
    /\ \E h \in Handles :
          /\ Enter(t, __iob[h].get, 0, stream_entry(__iob[h].get))
          /\ parm' = [parm EXCEPT ![t] = <<h>>]
    /\ snap' = [snap EXCEPT ![t] = Len(supplied)]
    /\ UNCHANGED <<todo, wdata, errno, tms>>

\* Threads that put, flush and get through the three streams, from static
\* initialisation.
NextStreams ==
    \E t \in DOMAIN pc :
        \/ CallPutVia(t)
        \/ CallFlushVia(t)
        \/ CallGetVia(t)
        \/ Lock(t)
        \/ PutStore(t)
        \/ FlushTest(t)
        \/ FlushWrite(t)
        \/ FlushReset(t)
        \/ Unlock(t)
        \/ PutRet(t)
        \/ FlushRet(t)
        \/ GetFlushed(t)
        \/ GetRead(t)

InitStreams == InitWith(Threads, 0, MaxCalls, <<>>)

SpecStreams == InitStreams /\ [][NextStreams]_vars

\* --------------------------------------------------------------- fairness
\* A thread that can take a step of an entry point takes it (the scheduler
\* runs every ready thread), a channel write returns, and the mutex is
\* granted fairly: a thread waiting in mutex_lock gets the mutex if it is
\* free again and again.  Nothing makes a thread call an entry point,
\* makes the channel deliver a byte to a read, or makes pm_off return.
InitLive == InitWith(Threads, 0, MaxCalls, <<>>)

Step(t) ==
    \/ PutStore(t)
    \/ FlushTest(t)
    \/ FlushWrite(t)
    \/ FlushReset(t)
    \/ Unlock(t)
    \/ PutRet(t)
    \/ FlushRet(t)
    \/ GetFlushed(t)
    \/ Write(t)
    \/ ExitLog(t)
    \/ PmOff(t)

Fairness == \A t \in Threads : WF_vars(Step(t)) /\ SF_vars(Lock(t))

SpecLive == InitLive /\ [][Next]_vars /\ Fairness

\* ============================================================== properties
Range(s) == {s[i] : i \in 1..Len(s)}
Count(s, b) == Cardinality({i \in 1..Len(s) : s[i] = b})
Last(s) == s[Len(s)]

\* the bytes on the channel, and those of them _picolibc_flush wrote
ByMux(e) == e[2] = "_picolibc_flush"
BytesOf(ch) == [i \in 1..Len(ch) |-> ch[i][1]]
ChannelBytes == BytesOf(channel)
muxOut == BytesOf(SelectSeq(channel, ByMux))

\* the places between mutex_lock and mutex_unlock of picolibc_put and
\* picolibc_flush
CriticalPcs == {"put_store", "fl_test", "fl_write", "fl_reset", "unlock"}

\* a thread has handed the queued bytes to stdio_write and not yet reset
\* the count
InFlushReset == \E t \in DOMAIN pc : pc[t] = "fl_reset"

\* the bytes queued and not yet written
StillQueued ==
    IF InFlushReset THEN <<>> ELSE Prefix(picolibc_stdout, picolibc_stdout_queued)

\* C1: the bytes the multiplexer wrote to the channel, followed by the bytes
\* still queued, are the bytes supplied to put in the order the puts held the
\* mutex: none dropped, duplicated or reordered.
C1_PutOrder == muxOut \o StillQueued = supplied

\* two threads have put bytes, some are written and some still queued
C1_Witness ==
    /\ Len(muxOut) > 0
    /\ ~InFlushReset
    /\ picolibc_stdout_queued > 0
    /\ \A t \in DOMAIN pc : op[t] = "put" /\ pc[t] = "idle"

AllDone == \A t \in DOMAIN pc : todo[t] = <<>> /\ pc[t] = "idle"

\* C2 as stated: when the three threads are done the channel holds 9 bytes
\* and every thread's run 'A','B','\n' is contiguous on it.  Every thread
\* puts the same run, and a thread puts its 'B' after its 'A' and its '\n'
\* after its 'B', so the runs are contiguous exactly if the channel is
\* "AB\nAB\nAB\n".
C2_RunsContiguous == AllDone => ChannelBytes = Run \o Run \o Run

\* C2, amended: when the three threads are done the channel holds exactly 9
\* bytes, three each of 'A', 'B' and '\n', nothing is left queued, and the
\* channel is a merge of the three runs (in every prefix the 'A's are at
\* least as many as the 'B's, and the 'B's as the '\n's): every thread's
\* bytes keep their order, the runs themselves may interleave bytewise.
C2_RunsMerged ==
    AllDone =>
        /\ Len(ChannelBytes) = 9
        /\ picolibc_stdout_queued = 0
        /\ \A b \in Range(Run) : Count(ChannelBytes, b) = 3
        /\ \A n \in 0..Len(ChannelBytes) :
              /\ Count(SubSeq(ChannelBytes, 1, n), 65) >= Count(SubSeq(ChannelBytes, 1, n), 66)
              /\ Count(SubSeq(ChannelBytes, 1, n), 66) >= Count(SubSeq(ChannelBytes, 1, n), NL)

\* the three threads are done and the runs are interleaved on the channel
C2_Witness == AllDone /\ ChannelBytes # Run \o Run \o Run

\* C3 as stated: at most one thread is in the body of picolibc_put,
\* picolibc_flush or picolibc_get, the channel read of get included.
C3_OneCallerInside ==
    Cardinality({t \in DOMAIN pc : pc[t] \in CriticalPcs \cup {"get_read"}}) <= 1

\* C3, amended: at most one thread is between mutex_lock and mutex_unlock of
\* picolibc_put or picolibc_flush (the flush of picolibc_get included), and
\* that thread holds the mutex.
C3_OneInCriticalSection ==
    /\ Cardinality({t \in DOMAIN pc : pc[t] \in CriticalPcs}) <= 1
    /\ \A t \in DOMAIN pc : pc[t] \in CriticalPcs => picolibc_put_mutex = t

\* a thread is in the critical section while another waits in mutex_lock
C3_Witness ==
    \E t, u \in DOMAIN pc : pc[t] = "fl_write" /\ pc[u] = "lock" /\ op[u] = "put"

\* C4: the count is in 0..64, no store goes outside the buffer, the count is
\* 64 only while the put that made it 64 is in its inline flush holding the
\* mutex, that flush writes all 64 bytes, and no byte is lost over it.
C4_CountBounded ==
    /\ overflow = FALSE
    /\ picolibc_stdout_queued \in 0..PICOLIBC_STDOUT_BUFSIZE
    /\ picolibc_stdout_queued = PICOLIBC_STDOUT_BUFSIZE =>
          \E t \in DOMAIN pc :
              /\ picolibc_put_mutex = t
              /\ op[t] = "put"
              /\ pc[t] \in {"fl_test", "fl_write", "fl_reset"}
              /\ pc[t] = "fl_reset" =>
                    lastFlush = Prefix(picolibc_stdout, PICOLIBC_STDOUT_BUFSIZE)
    /\ Len(muxOut) + Len(StillQueued) = Len(supplied)

\* the buffer was filled from empty, written as a whole, and a later put has
\* stored its byte at the start of the buffer
C4_Witness ==
    /\ Len(lastFlush) = PICOLIBC_STDOUT_BUFSIZE
    /\ picolibc_stdout_queued = 1
    /\ picolibc_put_mutex = MUTEX_INIT

\* C5: the multiplexer writes to the channel only in a flush, in a get, or
\* in a put whose byte is a newline or whose byte made the count 64.
C5_NoEarlyWrite ==
    [][muxOut' # muxOut =>
          \E t \in DOMAIN pc :
              /\ pc[t] = "fl_write"
              /\ pc'[t] = "fl_reset"
              /\ \/ op[t] \in {"flush", "get"}
                 \/ arg[t] = NL
                 \/ picolibc_stdout_queued = PICOLIBC_STDOUT_BUFSIZE]_vars

\* puts have returned, their bytes are queued and nothing was written
C5_Witness ==
    /\ muxOut = <<>>
    /\ budget = 0
    /\ picolibc_stdout_queued = MaxCalls
    /\ \A t \in DOMAIN pc : pc[t] = "idle" /\ op[t] = "put"

\* C6: a put of a newline that has reached its mutex_unlock has written to
\* the channel in this call, the written bytes end with that newline, and
\* the count is 0; the write stays on record until the thread's next call.
C6_NewlineFlushes ==
    \A t \in DOMAIN pc :
        op[t] = "put" /\ arg[t] = NL =>
            /\ pc[t] = "unlock" =>
                  /\ picolibc_put_mutex = t
                  /\ wrote[t]
                  /\ lastFlush # <<>>
                  /\ Last(lastFlush) = NL
                  /\ Last(muxOut) = NL
                  /\ picolibc_stdout_queued = 0
            /\ pc[t] \in {"ret", "idle"} => wrote[t]

\* a newline put after other bytes is about to release the mutex
C6_Witness ==
    \E t \in DOMAIN pc :
        /\ op[t] = "put"
        /\ arg[t] = NL
        /\ pc[t] = "unlock"
        /\ Len(lastFlush) > 1

\* C7: a get that is at its channel read has run _picolibc_flush (also on an
\* empty buffer), and every byte put before the get was called is on the
\* channel.
C7_GetFlushesFirst ==
    \A t \in DOMAIN pc :
        pc[t] = "get_read" =>
            /\ flushed[t]
            /\ Len(muxOut) >= snap[t]
            /\ SubSeq(muxOut, 1, snap[t]) = SubSeq(supplied, 1, snap[t])

\* a get called with bytes queued has written them and is at its read
C7_Witness ==
    \E t \in DOMAIN pc :
        /\ pc[t] = "get_read"
        /\ wrote[t]
        /\ snap[t] > 0
        /\ Len(muxOut) = snap[t]

\* C8: the mutex is unlocked or held by a thread that is between mutex_lock
\* and mutex_unlock of picolibc_put or picolibc_flush; a thread outside
\* these, in particular one that has returned, does not hold it.
C8_MutexReleased ==
    /\ picolibc_put_mutex \in {MUTEX_INIT} \cup DOMAIN pc
    /\ \A t \in DOMAIN pc :
          picolibc_put_mutex = t =>
              /\ pc[t] \in CriticalPcs
              /\ op[t] \in {"put", "flush", "get"}

\* a put has flushed inline and returned, and another thread has the mutex
C8_Witness ==
    \E t, u \in DOMAIN pc :
        /\ pc[t] = "idle"
        /\ op[t] = "put"
        /\ wrote[t]
        /\ picolibc_put_mutex = u

ExitPcs == {"exit_log", "exit_pm", "pm_off", "halted"}

\* C9: _exit(n) logs n, then calls pm_off, then spins: n is logged before
\* pm_off is called and pm_off is called before the loop; a thread in _exit
\* stays in _exit and returns nothing, a thread in the loop stays in the
\* loop; and a scheduled thread that calls _exit gets as far as pm_off.
C9_ExitNeverReturns ==
    /\ [](\A t \in DOMAIN pc :
            /\ pc[t] = "exit_log" => <<t, arg[t]>> \notin Range(log)
            /\ pc[t] \in {"exit_pm", "pm_off", "halted"} => <<t, arg[t]>> \in Range(log)
            /\ pc[t] \in {"exit_log", "exit_pm"} => t \notin pm
            /\ pc[t] \in {"pm_off", "halted"} => t \in pm)
    /\ [][\A t \in DOMAIN pc :
            /\ pc[t] \in ExitPcs => pc'[t] \in ExitPcs /\ ret'[t] = <<>>
            /\ pc[t] = "halted" => pc'[t] = "halted"]_vars
    /\ \A t \in Threads : (pc[t] = "exit_log") ~> (pc[t] \in {"pm_off", "halted"})

\* pm_off has returned and the thread is in the loop
C9_Witness ==
    \E t \in DOMAIN pc : pc[t] = "halted" /\ arg[t] = 1 /\ t \in pm

\* C10: a put that has returned returned 1 and a flush that has returned
\* returned 0; with channel writes that return and a fairly granted mutex,
\* every call of put or flush returns.
C10_PutFlushReturn ==
    /\ [](\A t \in DOMAIN pc :
            pc[t] = "idle" =>
                /\ op[t] = "put" => ret[t] = <<1>>
                /\ op[t] = "flush" => ret[t] = <<0>>)
    /\ \A t \in Threads :
          (pc[t] = "lock" /\ op[t] \in {"put", "flush"}) ~> (pc[t] = "idle")

\* a put that had to wait for the mutex has returned 1 while a get is still
\* waiting for the channel
C10_Witness ==
    \E t, u \in DOMAIN pc :
        /\ pc[t] = "idle"
        /\ op[t] = "put"
        /\ ret[t] = <<1>>
        /\ wrote[t]
        /\ pc[u] = "get_read"

\* C19: whenever the mutex is unlocked, fewer than 64 bytes are queued and
\* none of the queued bytes is a newline.
C19_QuietWhenFree ==
    mutex_free(picolibc_put_mutex) =>
        /\ picolibc_stdout_queued < PICOLIBC_STDOUT_BUFSIZE
        /\ NL \notin Range(Prefix(picolibc_stdout, picolibc_stdout_queued))

\* puts have filled the buffer to 64 bytes, it was written in one piece, and
\* the mutex is unlocked again
C19_Witness ==
    /\ mutex_free(picolibc_put_mutex)
    /\ Len(lastFlush) = PICOLIBC_STDOUT_BUFSIZE
    /\ picolibc_stdout_queued = 0
    /\ \A t \in DOMAIN pc : pc[t] = "idle" /\ op[t] = "put"

\* the bytes a channel write of _picolibc_flush adds in the present state
FlushEntries ==
    [i \in 1..picolibc_stdout_queued |-> <<picolibc_stdout[i - 1], "_picolibc_flush">>]

\* C20: a thread (in put, flush or get) that is about to issue the channel
\* write of _picolibc_flush holds the mutex and the count is between 1 and
\* 64; the write adds exactly the queued bytes; from the write to the reset
\* of the count the mutex stays with that thread, and the reset makes the
\* count 0; a _picolibc_flush that finds the count 0 issues no write and
\* changes neither channel, buffer nor count, and a flush or get that is
\* about to unlock leaves the count 0: a flush that follows a flush finds
\* the count 0 and changes nothing.
C20_FlushWrites ==
    /\ [](\A t \in DOMAIN pc :
            /\ pc[t] = "fl_write" =>
                  /\ picolibc_put_mutex = t
                  /\ picolibc_stdout_queued \in 1..PICOLIBC_STDOUT_BUFSIZE
            /\ pc[t] = "fl_reset" =>
                  /\ picolibc_put_mutex = t
                  /\ wrote[t]
                  /\ Len(lastFlush) \in 1..PICOLIBC_STDOUT_BUFSIZE
            /\ pc[t] = "unlock" /\ op[t] \in {"flush", "get"} =>
                  picolibc_stdout_queued = 0)
    /\ [][\A t \in DOMAIN pc :
            /\ pc[t] = "fl_write" /\ pc'[t] # pc[t] =>
                  /\ channel' = channel \o FlushEntries
                  /\ pc'[t] = "fl_reset"
            /\ pc[t] = "fl_reset" =>
                  /\ picolibc_put_mutex' = t
                  /\ pc'[t] # pc[t] =>
                        /\ pc'[t] = "unlock"
                        /\ picolibc_stdout_queued' = 0
                        /\ channel' = channel
            /\ pc[t] = "fl_test" /\ picolibc_stdout_queued = 0 /\ pc'[t] # pc[t] =>
                  /\ pc'[t] = "unlock"
                  /\ ~wrote'[t]
                  /\ UNCHANGED <<picolibc_stdout, picolibc_stdout_queued, channel>>
            /\ channel' # channel /\ Last(channel')[2] = "_picolibc_flush" =>
                  \E u \in DOMAIN pc : pc[u] = "fl_write" /\ pc'[u] = "fl_reset"]_vars

\* a flush has written the queued bytes and returned, and a second flush
\* has found the buffer empty and is about to unlock without a write
C20_Witness ==
    \E t, u \in DOMAIN pc :
        /\ op[t] = "flush" /\ pc[t] = "idle" /\ wrote[t]
        /\ op[u] = "flush" /\ pc[u] = "unlock" /\ ~wrote[u] /\ flushed[u]
        /\ Len(channel) = PICOLIBC_STDOUT_BUFSIZE - Gap
        /\ picolibc_stdout_queued = 0

\* the entries a write() of thread t adds to the channel
WriteEntries(t) == [i \in 1..arg[t] |-> <<wdata[t][i], "write">>]

\* C16: a thread in write() is never at mutex_lock and never holds the
\* mutex, its channel write can be issued whoever holds the mutex, and its
\* step leaves the mutex, the buffer and the count as they are: the data is
\* appended to the channel, the multiplexer's part of the channel does not
\* grow, and the bytes queued before the step are queued after it.
C16_WriteBypasses ==
    /\ [](\A t \in DOMAIN pc :
            /\ op[t] = "write" =>
                  /\ pc[t] \in {"write_call", "idle"}
                  /\ picolibc_put_mutex # t
            /\ pc[t] = "write_call" => ENABLED Write(t))
    /\ [][\A t \in DOMAIN pc :
            pc[t] = "write_call" /\ pc'[t] # pc[t] =>
                /\ UNCHANGED shared
                /\ channel' = channel \o WriteEntries(t)
                /\ muxOut' = muxOut
                /\ StillQueued' = StillQueued]_vars

\* bytes are queued, another thread is inside put with the mutex, and a
\* write() has returned: its data is all there is on the channel
C16_Witness ==
    \E t, u \in DOMAIN pc :
        /\ op[t] = "write" /\ pc[t] = "idle" /\ ret[t] = <<arg[t]>>
        /\ picolibc_put_mutex = u /\ op[u] = "put"
        /\ picolibc_stdout_queued > 0
        /\ muxOut = <<>>
        /\ BytesOf(channel) = wdata[t]

\* C11: the step of write(fd, data, count) appends the first count bytes of
\* data, and nothing else, to the channel in one channel write, returns count
\* (the channel write returns when all count bytes are written, with count),
\* and leaves mutex, buffer, count and errno as they are, whatever fd is; a
\* write that has returned has returned its count.
C11_WriteDelegates ==
    /\ [](\A t \in DOMAIN pc :
            op[t] = "write" /\ pc[t] = "idle" => ret[t] = <<arg[t]>>)
    /\ [][\A t \in DOMAIN pc :
            pc[t] = "write_call" /\ pc'[t] # pc[t] =>
                /\ channel' = channel \o WriteEntries(t)
                /\ BytesOf(SubSeq(channel', Len(channel) + 1, Len(channel'))) =
                       SubSeq(wdata[t], 1, arg[t])
                /\ ret'[t] = <<arg[t]>>
                /\ pc'[t] = "idle"
                /\ UNCHANGED <<shared, errno>>]_vars

\* a write of the first byte of a two-byte buffer to a descriptor that was
\* never opened has returned 1, with bytes queued in the stdout buffer; a
\* write to stdout of the same count has returned 1 as well
C11_Witness ==
    \E t, u \in DOMAIN pc :
        /\ op[t] = "write" /\ pc[t] = "idle" /\ parm[t] = <<3>>
        /\ op[u] = "write" /\ pc[u] = "idle" /\ parm[u] = <<1>>
        /\ arg[t] = 1 /\ Len(wdata[t]) = 2 /\ ret[t] = <<1>>
        /\ arg[u] = 1 /\ wdata[u] = wdata[t] /\ ret[u] = <<1>>
        /\ BytesOf(channel) = <<wdata[t][1], wdata[t][1]>>
        /\ picolibc_stdout_queued > 0

\* the step of thread t leaves every other thread where it is, with its errno
OthersUntouched(t) ==
    \A u \in DOMAIN pc \ {t} :
        /\ pc'[u] = pc[u]
        /\ ret'[u] = ret[u]
        /\ errno'[u] = errno[u]
        /\ tms'[u] = tms[u]

\* C12: a close(fd) that has returned has returned -1 and left ENODEV in
\* errno, for every fd; its step changes nothing but the caller's errno and
\* return value: not the mutex, the buffer, the count or the channel, and
\* no other thread.
C12_CloseFails ==
    /\ [](\A t \in DOMAIN pc :
            op[t] = "close" /\ pc[t] = "idle" =>
                /\ ret[t] = <<-1>>
                /\ errno[t] = "ENODEV")
    /\ [][\A t \in DOMAIN pc :
            pc[t] = "close_call" /\ pc'[t] # pc[t] =>
                /\ ret'[t] = <<-1>>
                /\ errno'[t] = "ENODEV"
                /\ pc'[t] = "idle"
                /\ UNCHANGED <<shared, channel, tms, halt>>
                /\ OthersUntouched(t)]_vars

\* close has failed on stdout and on a descriptor that was never opened,
\* with bytes queued in the stdout buffer
C12_Witness ==
    \E t, u \in DOMAIN pc :
        /\ op[t] = "close" /\ pc[t] = "idle" /\ arg[t] = 1 /\ ret[t] = <<-1>>
        /\ op[u] = "close" /\ pc[u] = "idle" /\ arg[u] = 3 /\ ret[u] = <<-1>>
        /\ picolibc_stdout_queued = PICOLIBC_STDOUT_BUFSIZE - Gap
        /\ channel = <<>>

\* C13: a times(ptms) that has returned has returned -1 and left ENOSYS in
\* errno, for a null and a non-null ptms; its step leaves the caller's
\* struct tms as it was and changes nothing but the caller's errno and
\* return value.
C13_TimesFails ==
    /\ [](\A t \in DOMAIN pc :
            op[t] = "times" /\ pc[t] = "idle" =>
                /\ ret[t] = <<-1>>
                /\ errno[t] = "ENOSYS"
                /\ tms[t] \in TmsValues)
    /\ [][\A t \in DOMAIN pc :
            pc[t] = "times_call" /\ pc'[t] # pc[t] =>
                /\ ret'[t] = <<-1>>
                /\ errno'[t] = "ENOSYS"
                /\ pc'[t] = "idle"
                /\ tms' = tms
                /\ UNCHANGED <<shared, channel, halt>>
                /\ OthersUntouched(t)]_vars

\* times has failed with a pointer to a struct tms, which holds what it held,
\* and with a null pointer, while bytes are queued in the stdout buffer
C13_Witness ==
    \E t, u \in DOMAIN pc :
        /\ op[t] = "times" /\ pc[t] = "idle" /\ parm[t] = <<"tms">>
        /\ ret[t] = <<-1>> /\ errno[t] = "ENOSYS" /\ tms[t] \in TmsValues
        /\ op[u] = "times" /\ pc[u] = "idle" /\ parm[u] = <<"NULL">>
        /\ ret[u] = <<-1>>
        /\ picolibc_stdout_queued > 0

\* C14: a kill(pid, sig) that has returned has returned -1 and left ESRCH in
\* errno, for the pid of a thread and of no thread and for every sig; its
\* step changes nothing but the caller's errno and return value: every other
\* thread, the target included, is where it was, and mutex, buffer, count
\* and channel are as they were.
C14_KillFails ==
    /\ [](\A t \in DOMAIN pc :
            op[t] = "kill" /\ pc[t] = "idle" =>
                /\ ret[t] = <<-1>>
                /\ errno[t] = "ESRCH")
    /\ [][\A t \in DOMAIN pc :
            pc[t] = "kill_call" /\ pc'[t] # pc[t] =>
                /\ ret'[t] = <<-1>>
                /\ errno'[t] = "ESRCH"
                /\ pc'[t] = "idle"
                /\ UNCHANGED <<shared, channel, tms, halt>>
                /\ OthersUntouched(t)]_vars

\* kill of a thread that is inside put with the mutex, with SIGKILL, has
\* failed: the target is still inside put and still has the mutex
C14_Witness ==
    \E t, u \in DOMAIN pc :
        /\ op[t] = "kill" /\ pc[t] = "idle" /\ arg[t] = u /\ parm[t] = <<9>>
        /\ ret[t] = <<-1>> /\ errno[t] = "ESRCH"
        /\ op[u] = "put" /\ pc[u] = "put_store" /\ picolibc_put_mutex = u

\* C17: a thread in get holds the mutex only between the mutex_lock and the
\* mutex_unlock of its flush; at its stdio_read it does not hold it, and the
\* read is one step that returns one byte and leaves mutex, buffer, count and
\* channel as they are.  While a thread is at the read, a thread waiting in
\* mutex_lock is granted the free mutex, and every put or flush of another
\* thread that is at its mutex_lock returns.
C17_ReadOutsideMutex ==
    /\ [](\A t \in DOMAIN pc :
            /\ pc[t] = "get_read" => picolibc_put_mutex # t
            /\ op[t] = "get" /\ picolibc_put_mutex = t => pc[t] \in CriticalPcs
            /\ pc[t] = "get_read" =>
                  \A u \in DOMAIN pc :
                      pc[u] = "lock" /\ mutex_free(picolibc_put_mutex) => ENABLED Lock(u))
    /\ [][\A t \in DOMAIN pc :
            pc[t] = "get_read" /\ pc'[t] # pc[t] =>
                /\ pc'[t] = "idle"
                /\ \E c \in InBytes : ret'[t] = <<c>>
                /\ UNCHANGED <<shared, channel>>]_vars
    /\ \A u \in Threads :
          (/\ pc[u] = "lock" /\ op[u] \in {"put", "flush"}
           /\ \E t \in DOMAIN pc : pc[t] = "get_read")
              ~> (pc[u] = "idle")

\* a thread is at the read of get, and another thread is inside put with
\* the mutex, about to write the newline it put
C17_Witness ==
    \E t, u \in DOMAIN pc :
        /\ pc[t] = "get_read"
        /\ op[u] = "put" /\ arg[u] = NL /\ pc[u] = "fl_write"
        /\ picolibc_put_mutex = u

C15_StreamsAliased ==
    /\ [](\A h \in Handles : __iob[h] = picolibc_stdio)
    /\ [](muxOut \o StillQueued = supplied /\ ~overflow)
    /\ [][\A t \in DOMAIN pc :
            /\ pc[t] = "idle" /\ pc'[t] # "idle" =>
                  /\ budget' = budget - 1
                  /\ \/ \E c \in Bytes : Enter(t, "put", c, "lock") /\ snap' = snap
                     \/ Enter(t, "flush", 0, "lock") /\ snap' = snap
                     \/ /\ Enter(t, "get", 0, get_entry)
                        /\ snap' = [snap EXCEPT ![t] = Len(supplied)]
                  /\ UNCHANGED <<todo, wdata, errno, tms>>
            /\ pc[t] # "idle" => parm'[t] = parm[t]]_vars

\* 'A' put through stdout and '\n' put through stderr have been written to
\* the channel by one flush
C15_Witness ==
    \E t, u \in DOMAIN pc :
        /\ op[t] = "put" /\ parm[t] = <<1>> /\ arg[t] = Run[1] /\ pc[t] = "idle"
        /\ op[u] = "put" /\ parm[u] = <<2>> /\ arg[u] = NL /\ pc[u] = "unlock"
        /\ wrote[u]
        /\ lastFlush = <<Run[1], NL>>
        /\ BytesOf(channel) = lastFlush

====
